---- MODULE Spec2Model ----
(***************************************************************************)
(* The review store of City Pulse (utils/reviews.py): one SQLite table     *)
(* `reviews` and the five operations over it.                              *)
(*                                                                         *)
(* Conventions of the model                                                *)
(*   - a row of the table is a record with the table's eight columns;      *)
(*   - created_at is the value of SQLite's CURRENT_TIMESTAMP, which has    *)
(*     one-second resolution: `now` is that value, in seconds, and several *)
(*     statements can run while it stays the same;                         *)
(*   - SQL leaves the order of rows that compare equal under ORDER BY      *)
(*     unspecified: a SELECT ... ORDER BY is modelled by the set of all    *)
(*     row sequences that respect the ordering terms;                      *)
(*   - Python's None is the string "None"; Python's True is the integer 1  *)
(*     (bool is a subclass of int and True == 1);                          *)
(*   - the float `average` is the exact fraction [num, den].               *)
(***************************************************************************)
EXTENDS Integers, Sequences, FiniteSets, TLC

VARIABLES
    tableExists,      \* the table `reviews` exists in reviews.db
    reviews,          \* the rows of the table `reviews`
    sqlite_sequence,  \* the AUTOINCREMENT counter kept for `reviews`
    now,              \* CURRENT_TIMESTAMP, in seconds
    last,             \* the last operation called: its name, arguments, result
    issued,           \* history: the ids assigned so far, oldest first
    connections,      \* connections to reviews.db opened and not closed
    shown,            \* the messages the Reviews tab's last handler showed
    page,             \* what the Reviews tab's last render pass displayed
    calls,            \* per user: the store call in progress, and where it is
    lock              \* the user whose connection holds SQLite's write lock

vars == <<tableExists, reviews, sqlite_sequence, now, last, issued,
          connections, shown, page, calls, lock>>

---------------------------------------------------------------------------
(* Bounds of the model *)

MaxReviews == 3         \* adds per run, specification Spec
MaxClock == 1           \* seconds that pass, specification Spec
MaxFieldReviews == 2    \* adds per run, specification SpecFields
MaxSummaryReviews == 4  \* adds per run, specification SpecSummary

(* Input domains *)

Cities == {"", "mumbai", "Mumbai"}
SummaryCities == {"mumbai", "Mumbai"}
FieldCities == {"", "mumbai"}
Ratings == {3, 4, 5, 6}
FieldRatings == {0, 5}
Titles == {"", "Nice"}
Texts == {"", "Good"}

---------------------------------------------------------------------------
(* Python values *)

PyNone == "None"

(* None where bytes are expected (photo_bytes, the photo_data column):    *)
(* bytes are tuples here, and TLC compares a tuple only with a tuple.     *)
PyNoneBytes == <<>>
PyTrue == 1

(* str.lower() on the city names of the model *)
Lower(s) == IF s = "Mumbai" THEN "mumbai" ELSE s

---------------------------------------------------------------------------
(* Arithmetic helpers *)

Max(a, b) == IF a >= b THEN a ELSE b

RECURSIVE SetSum(_, _)
(* sum(f[x] for x in S) *)
SetSum(f, S) ==
    IF S = {} THEN 0
    ELSE LET x == CHOOSE y \in S : TRUE
         IN  f[x] + SetSum(f, S \ {x})

RECURSIVE RatingSum(_)
(* the sum of the ratings of a set of rows *)
RatingSum(S) ==
    IF S = {} THEN 0
    ELSE LET r == CHOOSE y \in S : TRUE
         IN  r.rating + RatingSum(S \ {r})

---------------------------------------------------------------------------
(* SQL statements *)

CreateTableFresh(exists, rows) == {}

(* CREATE TABLE IF NOT EXISTS reviews (...): the rows of the table after it *)
CreateTableIfNotExists(exists, rows) == IF exists THEN rows ELSE {}

TableAfterInitSkipped(exists) == exists

(* init_reviews_db(): whether the table exists after the call, given        *)
(* whether it did before: CREATE TABLE IF NOT EXISTS leaves it existing.    *)
TableAfterInit(exists) == TRUE

(* id INTEGER PRIMARY KEY: the rowid a plain rowid table would give, one   *)
(* more than the largest rowid now in the table.                            *)
MaxRowid(rows) == IF rows = {} THEN 0
                  ELSE CHOOSE m \in {r.id : r \in rows} :
                         \A r \in rows : r.id <= m

NextRowidNoAutoincrement(rows, seq) == MaxRowid(rows) + 1

(* id INTEGER PRIMARY KEY AUTOINCREMENT: one more than the largest rowid    *)
(* the table has ever held, which SQLite keeps in sqlite_sequence.          *)
NextRowid(rows, seq) == Max(seq, MaxRowid(rows)) + 1

(* WHERE city = ? (TEXT, the default BINARY collation) *)
WhereCityNoCase(rows, city) == {r \in rows : Lower(r.city) = Lower(city)}

WhereCity(rows, city) == {r \in rows : r.city = city}

(* ORDER BY created_at: the row that may come first under DESC / ASC *)
FirstAsc(S) == {r \in S : \A q \in S : r.created_at <= q.created_at}

FirstDesc(S) == {r \in S : \A q \in S : r.created_at >= q.created_at}

RECURSIVE OrderByCreatedAtDesc(_)
(* ORDER BY created_at DESC: every sequence of the rows S the statement may *)
(* return; rows with equal created_at come in any order.                    *)
OrderByCreatedAtDesc(S) ==
    IF S = {} THEN {<<>>}
    ELSE UNION {{<<r>> \o t : t \in OrderByCreatedAtDesc(S \ {r})} :
                r \in FirstDesc(S)}

(* DELETE FROM reviews WHERE id = ? *)
DeleteWhereIdLe(rows, review_id) == {r \in rows : r.id > review_id}

DeleteWhereId(rows, review_id) == {r \in rows : r.id # review_id}

---------------------------------------------------------------------------
(* Results *)

(* one element of the list get_reviews_for_city returns *)
ReviewDict(r) ==
    [id |-> r.id, rating |-> r.rating, title |-> r.title,
     text |-> r.review_text, photo_data |-> r.photo_data,
     photo_filename |-> r.photo_filename, created_at |-> r.created_at]

(* what get_reviews_for_city(city) may return over the rows `rows` *)
ReviewsForCity(rows, city) ==
    {[i \in 1..Len(s) |-> ReviewDict(s[i])] :
        s \in OrderByCreatedAtDesc(WhereCity(rows, city))}

(* SELECT rating, COUNT ... GROUP BY rating: rating |-> count *)
GroupByRating(S) ==
    [g \in {r.rating : r \in S} |-> Cardinality({r \in S : r.rating = g})]

(* summary = {5: 0, 4: 0, 3: 0, 2: 0, 1: 0}; summary[rating] = count *)
SummaryDict(ratings) ==
    [k \in (1..5) \cup DOMAIN ratings |->
        IF k \in DOMAIN ratings THEN ratings[k] ELSE 0]

TotalInRange(summary) == SetSum(summary, 1..5)

(* total = sum(summary.values()) *)
Total(summary) == SetSum(summary, DOMAIN summary)

WeightedSumTo4(summary) == SetSum([r \in 1..4 |-> r * summary[r]], 1..4)

(* sum(r * summary[r] for r in range(1, 6)) *)
WeightedSum(summary) == SetSum([r \in 1..5 |-> r * summary[r]], 1..5)

AverageNoGuard(summary, total) == [num |-> WeightedSum(summary), den |-> total]

(* average = ... / total if total > 0 else 0 *)
Average(summary, total) ==
    IF total > 0 THEN [num |-> WeightedSum(summary), den |-> total]
    ELSE [num |-> 0, den |-> 1]

(* what get_city_rating_summary(city) returns over the rows `rows` *)
CityRatingSummary(rows, city) ==
    LET summary == SummaryDict(GroupByRating(WhereCity(rows, city)))
        total == Total(summary)
    IN  [summary |-> summary, average |-> Average(summary, total),
         total |-> total]

---------------------------------------------------------------------------
(* The operations of utils/reviews.py *)

(* the rows every operation works on: each one calls init_reviews_db() first *)
Db == CreateTableIfNotExists(tableExists, reviews)

InsertRowSwapped(id, city, rating, title, review_text, photo_bytes, photo_filename, created_at) ==
    [id |-> id, city |-> city, rating |-> rating, title |-> review_text,
     review_text |-> title, photo_data |-> photo_bytes,
     photo_filename |-> photo_filename, created_at |-> created_at]

InsertRowClamped(id, city, rating, title, review_text, photo_bytes, photo_filename, created_at) ==
    [id |-> id, city |-> city,
     rating |-> IF rating < 1 THEN 1 ELSE IF rating > 5 THEN 5 ELSE rating,
     title |-> title, review_text |-> review_text, photo_data |-> photo_bytes,
     photo_filename |-> photo_filename, created_at |-> created_at]

(* INSERT INTO reviews (city, rating, title, review_text, photo_data,       *)
(* photo_filename) VALUES (?, ?, ?, ?, ?, ?): the row stored, with the id   *)
(* and the created_at the table's defaults give it.                         *)
InsertRow(id, city, rating, title, review_text, photo_bytes, photo_filename, created_at) ==
    [id |-> id, city |-> city, rating |-> rating, title |-> title,
     review_text |-> review_text, photo_data |-> photo_bytes,
     photo_filename |-> photo_filename, created_at |-> created_at]

(* the sessions of the application: Streamlit runs each user's script in    *)
(* a thread of its own                                                      *)
Users == {"u1", "u2"}

(* no store call in progress *)
Idle == [op |-> "none", args |-> <<>>, pc |-> "idle", rowid |-> 0,
         created_at |-> 0]

Init ==
    /\ tableExists = FALSE
    /\ reviews = {}
    /\ sqlite_sequence = 0
    /\ now = 0
    /\ last = [op |-> "none", args |-> <<>>, ret |-> PyNone, rowid |-> 0,
               exc |-> PyNone]
    /\ issued = <<>>
    /\ connections = 0
    /\ shown = {}
    /\ page = [total |-> 0, reviews |-> <<>>, filter_rating |-> 0,
               filtered_reviews |-> <<>>]
    /\ calls = [u \in Users |-> Idle]
    /\ lock = "none"

init_reviews_db ==
    /\ tableExists' = TableAfterInit(tableExists)
    /\ reviews' = Db
    /\ last' = [op |-> "init_reviews_db", args |-> <<>>, ret |-> PyNone,
                rowid |-> 0, exc |-> PyNone]
    /\ UNCHANGED <<sqlite_sequence, now, issued, connections>>

add_review(city, rating, title, review_text, photo_bytes, photo_filename) ==
    LET rows == Db
        id == NextRowid(rows, sqlite_sequence)
    IN  /\ tableExists' = TableAfterInit(tableExists)
        /\ reviews' = rows \cup
              {InsertRow(id, city, rating, title, review_text, photo_bytes,
                         photo_filename, now)}
        /\ sqlite_sequence' = id
        /\ last' = [op |-> "add_review",
                    args |-> [city |-> city, rating |-> rating,
                              title |-> title, review_text |-> review_text,
                              photo_bytes |-> photo_bytes,
                              photo_filename |-> photo_filename],
                    ret |-> PyTrue, rowid |-> id, exc |-> PyNone]
        /\ issued' = Append(issued, id)
        /\ UNCHANGED <<now, connections>>

get_reviews_for_city(city) ==
    LET rows == Db
    IN  /\ tableExists' = TableAfterInit(tableExists)
        /\ reviews' = rows
        /\ \E result \in ReviewsForCity(rows, city) :
             last' = [op |-> "get_reviews_for_city", args |-> [city |-> city],
                      ret |-> result, rowid |-> 0, exc |-> PyNone]
        /\ UNCHANGED <<sqlite_sequence, now, issued, connections>>

get_city_rating_summary(city) ==
    LET rows == Db
    IN  /\ tableExists' = TableAfterInit(tableExists)
        /\ reviews' = rows
        /\ last' = [op |-> "get_city_rating_summary",
                    args |-> [city |-> city],
                    ret |-> CityRatingSummary(rows, city), rowid |-> 0,
                    exc |-> PyNone]
        /\ UNCHANGED <<sqlite_sequence, now, issued, connections>>

delete_review(review_id) ==
    LET rows == Db
    IN  /\ tableExists' = TableAfterInit(tableExists)
        /\ reviews' = DeleteWhereId(rows, review_id)
        /\ last' = [op |-> "delete_review",
                    args |-> [review_id |-> review_id],
                    ret |-> PyTrue, rowid |-> 0, exc |-> PyNone]
        /\ UNCHANGED <<sqlite_sequence, now, issued, connections>>

(* a second passes: CURRENT_TIMESTAMP moves on *)
Tick ==
    /\ now' = now + 1
    /\ UNCHANGED <<tableExists, reviews, sqlite_sequence, last, issued,
                   connections>>

---------------------------------------------------------------------------
(* Specifications *)

(* ids, ordering, matching and deletion: three cities, a clock *)
Next ==
    /\ UNCHANGED <<shown, page, calls, lock>>
    /\ \/ init_reviews_db
       \/ /\ sqlite_sequence < MaxReviews
          /\ \E city \in Cities :
               add_review(city, 5, "Nice", "Good", PyNoneBytes, PyNone)
       \/ \E city \in Cities : get_reviews_for_city(city)
       \/ \E city \in Cities : get_city_rating_summary(city)
       \/ \E review_id \in 1..(MaxReviews + 1) : delete_review(review_id)
       \/ now < MaxClock /\ Tick

Spec == Init /\ [][Next]_vars

(* the fields of a review: ratings in and out of range, blank strings *)
NextFields ==
    /\ UNCHANGED <<shown, page, calls, lock>>
    /\ \/ init_reviews_db
       \/ /\ sqlite_sequence < MaxFieldReviews
          /\ \E city \in FieldCities, rating \in FieldRatings,
                title \in Titles, review_text \in Texts :
               add_review(city, rating, title, review_text, PyNoneBytes, PyNone)
       \/ \E city \in FieldCities : get_reviews_for_city(city)
       \/ \E city \in FieldCities : get_city_rating_summary(city)
       \/ \E review_id \in 1..(MaxFieldReviews + 1) : delete_review(review_id)

SpecFields == Init /\ [][NextFields]_vars

(* the rating summary: several ratings per city *)
NextSummary ==
    /\ UNCHANGED <<shown, page, calls, lock>>
    /\ \/ /\ sqlite_sequence < MaxSummaryReviews
          /\ \E city \in SummaryCities, rating \in Ratings :
               add_review(city, rating, "Nice", "Good", PyNoneBytes, PyNone)
       \/ \E city \in SummaryCities : get_city_rating_summary(city)
       \/ \E review_id \in 1..(MaxSummaryReviews + 1) : delete_review(review_id)

SpecSummary == Init /\ [][NextSummary]_vars

---------------------------------------------------------------------------
(* Storage failures *)

(* where a call into utils/reviews.py can raise sqlite3.Error:              *)
(*   "init"     a statement of the init_reviews_db() it calls first;        *)
(*   "connect"  its own sqlite3.connect(DB_PATH);                           *)
(*   "execute"  its cursor.execute(...), e.g. database is locked, or NOT    *)
(*              NULL constraint failed;                                     *)
(*   "commit"   its conn.commit().                                          *)
FaultPoints == {"init", "connect", "execute", "commit"}


(* No function closes its connection in a finally clause or a with block:   *)
(* conn.close() is the last statement before the return, so an exception    *)
(* raised after sqlite3.connect() returned leaves that connection open.     *)
ConnectionsAfterRaise(point) ==
    IF point = "connect" THEN connections ELSE connections + 1

(* the call `op` raises at `point`: nothing was committed *)
raises(op, args, point) ==
    /\ tableExists' = IF point = "init" THEN tableExists
                      ELSE TableAfterInit(tableExists)
    /\ reviews' = IF point = "init" THEN reviews ELSE Db
    /\ connections' = ConnectionsAfterRaise(point)
    /\ last' = [op |-> op, args |-> args, ret |-> PyNone, rowid |-> 0,
                exc |-> "sqlite3.Error"]
    /\ UNCHANGED <<sqlite_sequence, now, issued>>

---------------------------------------------------------------------------
(* The Reviews tab of app.py: photos *)

MaxSize == 800      \* max_size = (800, 800)
JpegQuality == 85   \* img.save(..., format='JPEG', quality=85)

(* The bytes of an image file are <<format, mode, width, height, quality>>; *)
(* bytes that are no image are <<"junk">>.                                  *)
JunkBytes == <<"junk">>
BigJpeg == <<"JPEG", "RGB", 1600, 1200, 95>>
SmallJpeg == <<"JPEG", "RGB", 640, 480, 95>>
AlphaPng == <<"PNG", "RGBA", 1000, 500, 0>>

(* Image.open(io.BytesIO(b)) raises UnidentifiedImageError on such bytes *)
CanDecode(b) == Len(b) = 5

ImageOpen(b) == [mode |-> b[2], width |-> b[3], height |-> b[4]]

(* the modes Pillow's JPEG encoder writes; img.save raises OSError on others *)
JpegModes == {"RGB", "L", "CMYK"}

Abs(a) == IF a >= 0 THEN a ELSE 0 - a

(* Image.thumbnail's round_aspect(y * aspect, key=|aspect - n / y|): the    *)
(* width for height y of an image w by h                                    *)
RoundAspectWidth(w, h, y) ==
    LET f == (y * w) \div h
        c == IF (y * w) % h = 0 THEN f ELSE f + 1
        pick == IF Abs(w * y - f * h) <= Abs(w * y - c * h) THEN f ELSE c
    IN  Max(pick, 1)

(* round_aspect(x / aspect, key=0 if n == 0 else |aspect - x / n|): the     *)
(* height for width x of an image w by h                                    *)
RoundAspectHeight(w, h, x) ==
    LET f == (x * h) \div w
        c == IF (x * h) % w = 0 THEN f ELSE f + 1
        pick == IF f = 0 THEN f
                ELSE IF Abs(w * f - x * h) * c <= Abs(w * c - x * h) * f
                     THEN f ELSE c
    IN  Max(pick, 1)

ThumbnailCropped(img, x, y) ==
    [img EXCEPT !.width = IF img.width > x THEN x ELSE img.width,
                !.height = IF img.height > y THEN y ELSE img.height]

(* img.thumbnail((x, y)): the image no larger than x by y, its aspect ratio *)
(* kept; an image that fits already is left as it is                        *)
Thumbnail(img, x, y) ==
    IF x >= img.width /\ y >= img.height THEN img
    ELSE IF x * img.height >= img.width * y
         THEN [img EXCEPT !.width = RoundAspectWidth(img.width, img.height, y),
                          !.height = y]
         ELSE [img EXCEPT !.width = x,
                          !.height = RoundAspectHeight(img.width, img.height, x)]

ProcessPhotoAsIs(final_photo) == final_photo

(* the submit handler's photo step: decode, thumbnail, save as JPEG; any    *)
(* exception leaves photo_bytes = None                                      *)
ProcessPhoto(final_photo) ==
    IF final_photo = PyNoneBytes THEN PyNoneBytes
    ELSE IF ~CanDecode(final_photo) THEN PyNoneBytes
    ELSE LET img == Thumbnail(ImageOpen(final_photo), MaxSize, MaxSize)
         IN  IF img.mode \notin JpegModes THEN PyNoneBytes
             ELSE <<"JPEG", img.mode, img.width, img.height, JpegQuality>>

(* the except branch was taken: st.warning("Could not process image") *)
PhotoFailed(final_photo) ==
    final_photo # PyNoneBytes /\ ProcessPhoto(final_photo) = PyNoneBytes

(* the photo the form uses: the camera's if there is one, else the upload *)
FinalPhoto(camera_photo, uploaded_photo) ==
    IF camera_photo # PyNoneBytes THEN camera_photo ELSE uploaded_photo

UploadName == "holiday.png"

(* photo_filename: a generated name for a camera photo, the upload's name   *)
(* for an upload, None without a photo                                      *)
PhotoFilename(camera_photo, uploaded_photo) ==
    IF camera_photo # PyNoneBytes THEN "camera_" \o ToString(now) \o ".jpg"
    ELSE IF uploaded_photo # PyNoneBytes THEN UploadName
    ELSE PyNone

---------------------------------------------------------------------------
(* The Reviews tab of app.py: handlers *)

StripNothing(t) == t

(* str.strip() on the strings of the model *)
Strip(t) == IF t = " " THEN "" ELSE t

SubmitShownSuccessFirst(photo_failed, raised) ==
    (IF photo_failed THEN {"Could not process image"} ELSE {})
      \cup {"Review submitted successfully!"}
      \cup (IF raised THEN {"Error saving review"} ELSE {})

(* the handler returned without a call to the store *)
NoCall ==
    [op |-> "none", args |-> <<>>, ret |-> PyNone, rowid |-> 0,
     exc |-> PyNone]

(* what the submit handler shows once the fields are valid *)
SubmitShown(photo_failed, raised) ==
    (IF photo_failed THEN {"Could not process image"} ELSE {})
      \cup (IF raised THEN {"Error saving review"}
            ELSE {"Review submitted successfully!"})

(* if submit_button: ... of the form review_form *)
SubmitReview(city, review_title, star_rating, review_text, camera_photo, uploaded_photo, fault) ==
    LET final_photo == FinalPhoto(camera_photo, uploaded_photo)
        photo_filename == PhotoFilename(camera_photo, uploaded_photo)
        photo_bytes == ProcessPhoto(final_photo)
    IN  IF Strip(review_title) = ""
        THEN /\ shown' = {"Please enter a review title"}
             /\ last' = NoCall
             /\ UNCHANGED <<tableExists, reviews, sqlite_sequence, now,
                            issued, connections>>
        ELSE IF Strip(review_text) = ""
        THEN /\ shown' = {"Please write a review"}
             /\ last' = NoCall
             /\ UNCHANGED <<tableExists, reviews, sqlite_sequence, now,
                            issued, connections>>
        ELSE /\ IF fault = "none"
                THEN add_review(city, star_rating, review_title, review_text,
                                photo_bytes, photo_filename)
                ELSE raises("add_review",
                            [city |-> city, rating |-> star_rating,
                             title |-> review_title,
                             review_text |-> review_text,
                             photo_bytes |-> photo_bytes,
                             photo_filename |-> photo_filename], fault)
             /\ shown' = SubmitShown(PhotoFailed(final_photo), fault # "none")

(* if st.button("Delete Review <id>"): one button per review listed *)
DeleteClick(city, review_id, fault) ==
    /\ review_id \in {r.id : r \in WhereCity(Db, city)}
    /\ IF fault = "none"
       THEN /\ delete_review(review_id)
            /\ shown' = {"Review deleted!"}
       ELSE /\ raises("delete_review", [review_id |-> review_id], fault)
            /\ shown' = {"Error deleting review"}

---------------------------------------------------------------------------
(* The Reviews tab as a specification: one city, storage that can fail *)

MaxFormReviews == 2   \* reviews submitted per run
MaxLeaks == 1         \* calls that raise per run

AppCity == "mumbai"
FormTitles == {" ", "Nice"}
FormTexts == {"", "Good"}
FormRatings == {4}
CameraPhotos == {PyNoneBytes, SmallJpeg}
UploadedPhotos == {PyNoneBytes, JunkBytes, BigJpeg, AlphaPng}

NextApp ==
  /\ UNCHANGED <<page, calls, lock>>
  /\
    \/ /\ sqlite_sequence < MaxFormReviews
       /\ \E review_title \in FormTitles, review_text \in FormTexts,
             star_rating \in FormRatings, camera_photo \in CameraPhotos,
             uploaded_photo \in UploadedPhotos,
             fault \in {"none"} \cup FaultPoints :
            /\ fault # "none" =>
                  /\ connections < MaxLeaks
                  /\ Strip(review_title) # "" /\ Strip(review_text) # ""
            /\ SubmitReview(AppCity, review_title, star_rating, review_text,
                            camera_photo, uploaded_photo, fault)
    \/ \E review_id \in 1..MaxFormReviews,
          fault \in {"none"} \cup FaultPoints :
            /\ fault # "none" => connections < MaxLeaks
            /\ DeleteClick(AppCity, review_id, fault)
    \/ init_reviews_db /\ UNCHANGED shown
    \/ get_city_rating_summary(AppCity) /\ UNCHANGED shown
    \/ get_reviews_for_city(AppCity) /\ UNCHANGED shown
    \/ /\ connections < MaxLeaks
       /\ UNCHANGED shown
       /\ \/ raises("init_reviews_db", <<>>, "init")
          \/ \E point \in FaultPoints \ {"commit"} :
               \/ raises("get_city_rating_summary", [city |-> AppCity], point)
               \/ raises("get_reviews_for_city", [city |-> AppCity], point)

SpecApp == Init /\ [][NextApp]_vars

---------------------------------------------------------------------------
(* The photo step over images of many sizes *)

MaxResizeReviews == 2   \* reviews submitted per run, specification SpecResize

(* widths and heights of the photos uploaded: tiny, within 800, 800, just   *)
(* over, and far over                                                       *)
PhotoSizes == {1, 640, 800, 801, 2401}

SizedJpeg(w, h) == <<"JPEG", "RGB", w, h, 95>>

NextResize ==
    /\ UNCHANGED <<page, calls, lock>>
    /\ \/ /\ sqlite_sequence < MaxResizeReviews
          /\ \E w \in PhotoSizes, h \in PhotoSizes :
               SubmitReview(AppCity, "Nice", 4, "Good", PyNoneBytes,
                            SizedJpeg(w, h), "none")
       \/ get_reviews_for_city(AppCity) /\ UNCHANGED shown
       \/ \E review_id \in 1..MaxResizeReviews :
             DeleteClick(AppCity, review_id, "none")

SpecResize == Init /\ [][NextResize]_vars

---------------------------------------------------------------------------
(* The Reviews tab of app.py: one run of the script, top to bottom *)

(* options=[5, 4, 3, 2, 1] of the form's Rating selectbox *)
RatingOptions == {5, 4, 3, 2, 1}

(* options=[0, 5, 4, 3, 2, 1] of the Filter by Rating selectbox *)
FilterOptions == {0, 5, 4, 3, 2, 1}

RECURSIVE SelectRating(_, _)
(* [r for r in reviews if r['rating'] == filter_rating] *)
SelectRating(l, filter_rating) ==
    IF l = <<>> THEN <<>>
    ELSE IF Head(l).rating = filter_rating
         THEN <<Head(l)>> \o SelectRating(Tail(l), filter_rating)
         ELSE SelectRating(Tail(l), filter_rating)

FilteredReviewsAtLeast(l, filter_rating) ==
    IF filter_rating = 0 THEN l
    ELSE SelectSeq(l, LAMBDA r : r.rating >= filter_rating)

(* filtered_reviews = reviews if filter_rating == 0 else [r for r in ...] *)
FilteredReviews(l, filter_rating) ==
    IF filter_rating = 0 THEN l ELSE SelectRating(l, filter_rating)

(* total_reviews of the pass: get_city_rating_summary(city) is called at    *)
(* the top of the tab, before the form's handler runs                       *)
TotalShown(rows_before, city) ==
    CityRatingSummary(rows_before, city).total

(* what the pass displays: the summary's total, computed over rows_before,  *)
(* and the list, fetched over rows_after and filtered                       *)
Displayed(rows_before, rows_after, city, reviews_listed, filter_rating) ==
    [total |-> TotalShown(rows_before, city),
     reviews |-> reviews_listed,
     filter_rating |-> IF reviews_listed = <<>> THEN 0 ELSE filter_rating,
     filtered_reviews |-> IF reviews_listed = <<>> THEN <<>>
                          ELSE FilteredReviews(reviews_listed, filter_rating)]

(* a run with no button pressed: the tab is opened or the filter changed *)
ViewPass(city, filter_rating) ==
    /\ get_reviews_for_city(city)
    /\ shown' = {}
    /\ page' = Displayed(Db, Db, city, last'.ret, filter_rating)

(* the run in which the form is submitted; the filter keeps the value it    *)
(* has in st.session_state (key="filter_rating")                            *)
SubmitPass(city, review_title, star_rating, review_text) ==
    /\ SubmitReview(city, review_title, star_rating, review_text,
                    PyNoneBytes, PyNoneBytes, "none")
    /\ \E reviews_listed \in ReviewsForCity(reviews', city) :
          page' = Displayed(Db, reviews', city, reviews_listed,
                            page.filter_rating)

(* the run in which a review's Delete button is pressed: the button is one  *)
(* of those the page displayed shows; after delete_review, st.rerun() starts the      *)
(* script again and that run is the one displayed                           *)
DeletePass(city, review_id) ==
    /\ \E i \in 1..Len(page.filtered_reviews) :
          page.filtered_reviews[i].id = review_id
    /\ DeleteClick(city, review_id, "none")
    /\ \E reviews_listed \in ReviewsForCity(reviews', city) :
          page' = Displayed(reviews', reviews', city, reviews_listed,
                            page.filter_rating)

MaxPageReviews == 2   \* reviews submitted per run, specification SpecPage

NextPage ==
    /\ UNCHANGED <<calls, lock>>
    /\ \/ \E filter_rating \in FilterOptions :
             ViewPass(AppCity, filter_rating)
       \/ /\ sqlite_sequence < MaxPageReviews
          /\ \E review_title \in FormTitles, review_text \in FormTexts,
                star_rating \in RatingOptions :
               SubmitPass(AppCity, review_title, star_rating, review_text)
       \/ \E review_id \in 1..MaxPageReviews :
             DeletePass(AppCity, review_id)

SpecPage == Init /\ [][NextPage]_vars

---------------------------------------------------------------------------
(* Several users at once: each call on a connection of its own, its         *)
(* statements interleaved with the other users'                             *)

WriteOps == {"add_review", "delete_review"}

CanWriteAlways(holder) == TRUE

(* SQLite lets one connection at a time hold the write lock (RESERVED): an  *)
(* INSERT or DELETE on another connection waits for it, up to the timeout   *)
(* of sqlite3.connect (5 seconds)                                           *)
CanWrite(holder) == holder = "none"

(* the call starts: init_reviews_db(), then conn = sqlite3.connect(DB_PATH) *)
Begin(u, op, args) ==
    /\ calls[u].pc = "idle"
    /\ tableExists' = TableAfterInit(tableExists)
    /\ reviews' = Db
    /\ connections' = connections + 1
    /\ calls' = [calls EXCEPT ![u] = [op |-> op, args |-> args,
                                      pc |-> "connected", rowid |-> 0,
                                      created_at |-> 0]]
    /\ UNCHANGED <<sqlite_sequence, now, last, issued, shown, page, lock>>

(* cursor.execute of the INSERT or the DELETE: the connection takes the     *)
(* write lock and the statement's change is pending in its transaction      *)
ExecuteWrite(u) ==
    /\ calls[u].pc = "connected"
    /\ calls[u].op \in WriteOps
    /\ CanWrite(lock)
    /\ lock' = u
    /\ calls' = [calls EXCEPT
          ![u].pc = "executed",
          ![u].rowid = IF calls[u].op = "add_review"
                       THEN NextRowid(Db, sqlite_sequence) ELSE 0,
          ![u].created_at = now]
    /\ UNCHANGED <<tableExists, reviews, sqlite_sequence, now, last, issued,
                   connections, shown, page>>

(* the write lock is still held elsewhere when the timeout ends:            *)
(* cursor.execute raises sqlite3.OperationalError (database is locked) and  *)
(* the call leaves without conn.close()                                     *)
Busy(u) ==
    /\ calls[u].pc = "connected"
    /\ calls[u].op \in WriteOps
    /\ ~CanWrite(lock)
    /\ last' = [op |-> calls[u].op, args |-> calls[u].args, ret |-> PyNone,
                rowid |-> 0, exc |-> "sqlite3.OperationalError"]
    /\ calls' = [calls EXCEPT ![u] = Idle]
    /\ UNCHANGED <<tableExists, reviews, sqlite_sequence, now, issued,
                   connections, shown, page, lock>>

(* conn.commit(); conn.close(); return True *)
Commit(u) ==
    LET c == calls[u]
    IN  /\ c.pc = "executed"
        /\ IF c.op = "add_review"
           THEN /\ reviews' = Db \cup
                      {InsertRow(c.rowid, c.args.city, c.args.rating,
                                 c.args.title, c.args.review_text,
                                 c.args.photo_bytes, c.args.photo_filename,
                                 c.created_at)}
                /\ sqlite_sequence' = c.rowid
                /\ issued' = Append(issued, c.rowid)
           ELSE /\ reviews' = DeleteWhereId(Db, c.args.review_id)
                /\ UNCHANGED <<sqlite_sequence, issued>>
        /\ last' = [op |-> c.op, args |-> c.args, ret |-> PyTrue,
                    rowid |-> c.rowid, exc |-> PyNone]
        /\ lock' = "none"
        /\ connections' = connections - 1
        /\ calls' = [calls EXCEPT ![u] = Idle]
        /\ UNCHANGED <<tableExists, now, shown, page>>

(* cursor.execute of the SELECT, fetchall, conn.close(), return: the rows   *)
(* read are the committed ones                                              *)
Read(u) ==
    LET c == calls[u]
    IN  /\ c.pc = "connected"
        /\ c.op \notin WriteOps
        /\ IF c.op = "get_reviews_for_city"
           THEN \E result \in ReviewsForCity(Db, c.args.city) :
                   last' = [op |-> c.op, args |-> c.args, ret |-> result,
                            rowid |-> 0, exc |-> PyNone]
           ELSE last' = [op |-> c.op, args |-> c.args,
                         ret |-> CityRatingSummary(Db, c.args.city),
                         rowid |-> 0, exc |-> PyNone]
        /\ connections' = connections - 1
        /\ calls' = [calls EXCEPT ![u] = Idle]
        /\ UNCHANGED <<tableExists, reviews, sqlite_sequence, now, issued,
                       shown, page, lock>>

MaxConcurrentReviews == 2   \* adds per run, specification SpecConcurrent
MaxBusy == 1                \* calls that find the database locked, per run

(* the adds begun and not yet committed *)
AddsInProgress == Cardinality({u \in Users : calls[u].op = "add_review"})

(* connections left open by calls that raised *)
Leaked == connections - Cardinality({u \in Users : calls[u].pc # "idle"})

NextConcurrent ==
    /\ UNCHANGED <<shown, page>>
    /\ \/ /\ sqlite_sequence + AddsInProgress < MaxConcurrentReviews
          /\ \E u \in Users :
               Begin(u, "add_review",
                     [city |-> AppCity, rating |-> 5, title |-> u,
                      review_text |-> "Good", photo_bytes |-> PyNoneBytes,
                      photo_filename |-> PyNone])
       \/ \E u \in Users, review_id \in 1..MaxConcurrentReviews :
             Begin(u, "delete_review", [review_id |-> review_id])
       \/ \E u \in Users :
             Begin(u, "get_reviews_for_city", [city |-> AppCity])
       \/ \E u \in Users :
             Begin(u, "get_city_rating_summary", [city |-> AppCity])
       \/ \E u \in Users : ExecuteWrite(u)
       \/ \E u \in Users : Leaked < MaxBusy /\ Busy(u)
       \/ \E u \in Users : Commit(u)
       \/ \E u \in Users : Read(u)

SpecConcurrent == Init /\ [][NextConcurrent]_vars

---------------------------------------------------------------------------
(* Helpers of the properties *)

Ids(rows) == {r.id : r \in rows}

Range(s) == {s[i] : i \in 1..Len(s)}

NoDuplicates(s) == \A i, j \in 1..Len(s) : i # j => s[i] # s[j]

(* the step just taken was an add_review *)
Added == Len(issued') = Len(issued) + 1

(* summary.get(k, 0) *)
CountOf(summary, k) == IF k \in DOMAIN summary THEN summary[k] ELSE 0

---------------------------------------------------------------------------
(* Properties *)

(* C1: over the whole history the ids assigned to reviews are pairwise      *)
(* distinct: no two rows share an id, and no id assigned once, the highest  *)
(* so far and deleted ones included, is assigned again.                     *)
C1_UniqueIds ==
    /\ NoDuplicates(issued)
    /\ \A r, q \in reviews : r.id = q.id => r = q
    /\ Ids(reviews) \subseteq Range(issued)

(* an add into a table emptied by deletes: the highest id so far was deleted *)
C1_Witness ==
    /\ last.op = "add_review"
    /\ Len(issued) >= 2
    /\ Ids(reviews) = {last.rowid}

C3_AddVisible ==
    [][Added =>
        LET a == last'.args
            before == CityRatingSummary(Db, a.city)
            after == CityRatingSummary(Db', a.city)
        IN  /\ \A l \in ReviewsForCity(Db', a.city) :
                 \E i \in 1..Len(l) :
                    /\ l[i].id = last'.rowid
                    /\ l[i].rating = a.rating
                    /\ l[i].title = a.title
                    /\ l[i].text = a.review_text
            /\ after.total = before.total + 1
            /\ CountOf(after.summary, a.rating)
                 = CountOf(before.summary, a.rating) + 1]_vars

(* a second review of a city was just added, its title blank, its text not *)
C3_Witness ==
    /\ last.op = "add_review"
    /\ last.args.title = ""
    /\ last.args.review_text = "Good"
    /\ Cardinality(WhereCity(reviews, last.args.city)) = 2

(* C4: a city whose reviews carry strictly increasing created_at values in  *)
(* the order they were added is listed newest first, tn, ..., t1, whatever  *)
(* was added to or deleted from other cities in between.                    *)
C4_NewestFirst ==
    \A c \in Cities :
        LET S == WhereCity(Db, c)
        IN  (\A r, q \in S : r.id < q.id => r.created_at < q.created_at) =>
                \A l \in ReviewsForCity(Db, c) :
                    /\ {l[i].id : i \in 1..Len(l)} = Ids(S)
                    /\ \A i, j \in 1..Len(l) : i < j =>
                          /\ l[i].created_at > l[j].created_at
                          /\ l[i].id > l[j].id

(* the first and the third review, added a second apart, listed newest      *)
(* first after the review added between them was deleted                    *)
C4_Witness ==
    /\ last.op = "get_reviews_for_city"
    /\ Len(last.ret) = 2
    /\ last.ret[1].id = 3 /\ last.ret[2].id = 1
    /\ last.ret[1].created_at > last.ret[2].created_at
    /\ Len(issued) = 3
    /\ 2 \notin Ids(reviews)

(* C5: reviews of one city with equal created_at are listed in an order     *)
(* fixed by the order they were added in (all such ties oldest first, or    *)
(* all newest first), the same on every call.                               *)
C5_TiesByInsertionOrder ==
    \/ \A c \in Cities : \A l \in ReviewsForCity(Db, c) :
         \A i, j \in 1..Len(l) :
            (i < j /\ l[i].created_at = l[j].created_at) => l[i].id < l[j].id
    \/ \A c \in Cities : \A l \in ReviewsForCity(Db, c) :
         \A i, j \in 1..Len(l) :
            (i < j /\ l[i].created_at = l[j].created_at) => l[i].id > l[j].id

(* C6, as stated: the list of city c holds exactly the rows whose city is   *)
(* c, character for character; and it is empty when c is the empty string   *)
(* or no row matches.                                                       *)
C6_ExactMatchEmptyCity ==
    \A c \in Cities : \A l \in ReviewsForCity(Db, c) :
        /\ {l[i].id : i \in 1..Len(l)} = {r.id : r \in {q \in Db : q.city = c}}
        /\ Len(l) = Cardinality({q \in Db : q.city = c})
        /\ (c = "" \/ ~ \E q \in Db : q.city = c) => l = <<>>

(* C6, amended: the list of city c holds exactly the rows whose city is c,  *)
(* character for character: a row whose city differs from c only in letter  *)
(* case is never in it, and it is empty when no row matches; the empty      *)
(* string is a city like any other.                                         *)
C6_ExactMatch ==
    \A c \in Cities : \A l \in ReviewsForCity(Db, c) :
        /\ {l[i].id : i \in 1..Len(l)} = {r.id : r \in {q \in Db : q.city = c}}
        /\ Len(l) = Cardinality({q \in Db : q.city = c})
        /\ \A q \in Db : (Lower(q.city) = Lower(c) /\ q.city # c) =>
              \A i \in 1..Len(l) : l[i].id # q.id
        /\ (~ \E q \in Db : q.city = c) => l = <<>>

(* "Mumbai" was listed and came back empty while a review of "mumbai" is    *)
(* stored                                                                   *)
C6_Witness ==
    /\ last.op = "get_reviews_for_city"
    /\ last.args.city = "Mumbai"
    /\ last.ret = <<>>
    /\ \E q \in reviews : q.city = "mumbai"

(* C7: when every stored rating lies in 1..5, the summary of a city has     *)
(* exactly the keys 5, 4, 3, 2, 1, each counting the city's reviews of that *)
(* rating, its total is the sum of the five counts, and its average is the  *)
(* sum of the ratings over the total.                                       *)
C7_SummaryCorrect ==
    (\A r \in Db : r.rating \in 1..5) =>
        \A c \in SummaryCities :
            LET s == CityRatingSummary(Db, c)
                S == {r \in Db : r.city = c}
            IN  /\ DOMAIN s.summary = {5, 4, 3, 2, 1}
                /\ \A k \in 1..5 :
                      s.summary[k] = Cardinality({r \in S : r.rating = k})
                /\ s.total = s.summary[5] + s.summary[4] + s.summary[3]
                               + s.summary[2] + s.summary[1]
                /\ s.total > 0 =>
                      /\ s.average.den > 0
                      /\ s.average.num * s.total = RatingSum(S) * s.average.den

(* the summary of the ratings 5, 5, 4, 3: total 4, average 17/4 = 4.25 *)
C7_Witness ==
    /\ last.op = "get_city_rating_summary"
    /\ last.ret.summary = (5 :> 2) @@ (4 :> 1) @@ (3 :> 1) @@ (2 :> 0) @@ (1 :> 0)
    /\ last.ret.total = 4
    /\ last.ret.average = [num |-> 17, den |-> 4]

(* C8: the summary of a city counts exactly the reviews its list holds: the *)
(* total is the length of the list and the counts partition its reviews by  *)
(* rating.                                                                  *)
C8_SummaryMatchesList ==
    \A c \in FieldCities : \A l \in ReviewsForCity(Db, c) :
        LET s == CityRatingSummary(Db, c)
        IN  /\ s.total = Len(l)
            /\ \A i \in 1..Len(l) : l[i].rating \in DOMAIN s.summary
            /\ \A k \in DOMAIN s.summary :
                  s.summary[k] = Cardinality({i \in 1..Len(l) : l[i].rating = k})

(* after an add of each rating and a delete, the summary counts the one     *)
(* review left, whose rating is 0                                           *)
C8_Witness ==
    /\ last.op = "get_city_rating_summary"
    /\ last.ret.total = 1
    /\ Len(issued) = 2
    /\ \E r \in reviews : reviews = {r} /\ r.rating = 0 /\ r.city = last.args.city

(* C9: the summary of a city with no matching review is the five counts 0,  *)
(* total 0 and average 0, computed without a division by zero.              *)
C9_EmptySummary ==
    \A c \in Cities :
        (~ \E r \in Db : r.city = c) =>
            LET s == CityRatingSummary(Db, c)
            IN  /\ s.summary = [k \in 1..5 |-> 0]
                /\ s.total = 0
                /\ s.average.den # 0
                /\ s.average.num = 0

(* the summary of a city all of whose reviews were deleted *)
C9_Witness ==
    /\ last.op = "get_city_rating_summary"
    /\ last.ret.total = 0
    /\ last.ret.average = [num |-> 0, den |-> 1]
    /\ Len(issued) > 0
    /\ reviews = {}

(* C10: delete_review of an id that no stored review has, never issued or   *)
(* already deleted, returns True and changes no list and no summary.        *)
C10_NoOpDelete ==
    [][(/\ last'.op = "delete_review"
        /\ last'.args.review_id \notin Ids(Db)) =>
            /\ last'.ret = PyTrue
            /\ reviews' = Db
            /\ \A c \in Cities :
                  /\ ReviewsForCity(Db', c) = ReviewsForCity(Db, c)
                  /\ CityRatingSummary(Db', c) = CityRatingSummary(Db, c)]_vars

(* a delete of an id never issued has returned, with reviews in the store *)
C10_Witness ==
    /\ last.op = "delete_review"
    /\ last.ret = PyTrue
    /\ last.args.review_id \notin Range(issued)
    /\ reviews # {}

---------------------------------------------------------------------------
(* Helpers of the properties that follow *)

StoreOps == {"add_review", "get_reviews_for_city", "get_city_rating_summary",
             "delete_review"}

(* the sequence l without the reviews whose id is `id` *)
RECURSIVE WithoutId(_, _)
WithoutId(l, id) ==
    IF l = <<>> THEN <<>>
    ELSE IF Head(l).id = id THEN WithoutId(Tail(l), id)
         ELSE <<Head(l)>> \o WithoutId(Tail(l), id)

(* C11: delete_review of the id of a stored review removes that row and no  *)
(* other: no list holds the id afterwards, every other row is stored with   *)
(* the same fields, and the lists every city can get are the ones it could  *)
(* get before with that review taken out (the order of the others kept).    *)
C11_DeleteExactlyOne ==
    [][(/\ last'.op = "delete_review"
        /\ now' = now
        /\ last'.args.review_id \in Ids(Db)) =>
            LET id == last'.args.review_id
            IN  /\ Ids(reviews') = Ids(Db) \ {id}
                /\ \A r \in Db : r.id # id => r \in reviews'
                /\ reviews' \subseteq Db
                /\ \A c \in Cities :
                      /\ \A l \in ReviewsForCity(Db', c) :
                            \A i \in 1..Len(l) : l[i].id # id
                      /\ ReviewsForCity(Db', c)
                           = {WithoutId(l, id) : l \in ReviewsForCity(Db, c)}]_vars

(* the second of three reviews was just deleted; the two left are of one    *)
(* city and were added a second apart                                       *)
C11_Witness ==
    /\ last.op = "delete_review"
    /\ last.args.review_id = 2
    /\ Ids(reviews) = {1, 3}
    /\ \E r, q \in reviews :
          r.id = 1 /\ q.id = 3 /\ r.city = q.city /\ r.created_at < q.created_at

(* C12: init_reviews_db, called at any point, leaves the rows every         *)
(* operation sees and the id the next add will get as they were; on a store *)
(* already initialized it changes nothing at all.                           *)
C12_InitIdempotent ==
    [][last'.op = "init_reviews_db" =>
          /\ tableExists'
          /\ Db' = Db
          /\ NextRowid(Db', sqlite_sequence') = NextRowid(Db, sqlite_sequence)
          /\ tableExists =>
                /\ reviews' = reviews
                /\ sqlite_sequence' = sqlite_sequence]_vars

(* init_reviews_db was just called on a store that holds a review and has   *)
(* assigned more ids than it holds rows                                     *)
C12_Witness ==
    /\ last.op = "init_reviews_db"
    /\ reviews # {}
    /\ Cardinality(reviews) < Len(issued)
    /\ sqlite_sequence = Len(issued)

(* C13: each of the four operations may be the first call on a store never  *)
(* initialized: it creates the table before its statement runs, so once an  *)
(* operation has run the table exists, and rows exist only in a table.      *)
C13_LazyInit ==
    /\ [](last.op \in StoreOps => tableExists)
    /\ [](reviews # {} => tableExists)
    /\ [][(last.op = "none" /\ last'.op \in StoreOps) =>
             /\ ~tableExists
             /\ tableExists'
             /\ last'.exc = PyNone]_vars

(* delete_review has run and no add ever has: the table exists and is empty *)
C13_Witness ==
    /\ last.op = "delete_review"
    /\ last.exc = PyNone
    /\ issued = <<>>
    /\ tableExists
    /\ reviews = {}

(* the fields of the form are valid: title and text not blank *)
FormValid(review_title, review_text) ==
    Strip(review_title) # "" /\ Strip(review_text) # ""

(* C14: a submission whose photo bytes are no image still creates the       *)
(* review, with the city, rating, title and text given and no photo data,   *)
(* and reports success.                                                     *)
C14_JunkPhotoStillAdds ==
    [][Added => \A review_title \in FormTitles, review_text \in FormTexts,
          star_rating \in FormRatings, uploaded_photo \in UploadedPhotos :
          (/\ FormValid(review_title, review_text)
           /\ uploaded_photo # PyNoneBytes
           /\ ~CanDecode(uploaded_photo)
           /\ SubmitReview(AppCity, review_title, star_rating, review_text,
                           PyNoneBytes, uploaded_photo, "none")) =>
              /\ last'.exc = PyNone
              /\ "Review submitted successfully!" \in shown'
              /\ Cardinality(reviews' \ Db) = 1
              /\ \A r \in reviews' \ Db :
                    /\ r.city = AppCity
                    /\ r.rating = star_rating
                    /\ r.title = review_title
                    /\ r.review_text = review_text
                    /\ r.photo_data = PyNoneBytes]_vars

(* a review was just stored whose photo could not be processed *)
C14_Witness ==
    /\ last.op = "add_review"
    /\ last.exc = PyNone
    /\ shown = {"Could not process image", "Review submitted successfully!"}
    /\ \E r \in reviews :
          r.id = last.rowid /\ r.photo_data = PyNoneBytes /\ r.title = "Nice"

(* C15: when the photo cannot be decoded or re-encoded, the row stored is   *)
(* the one the same submission without a photo stores: photo_data and       *)
(* photo_filename are both None.                                            *)
C15_FailedPhotoAsNoPhoto ==
    [][Added => \A review_title \in FormTitles, review_text \in FormTexts,
          star_rating \in FormRatings, uploaded_photo \in UploadedPhotos :
          (/\ FormValid(review_title, review_text)
           /\ PhotoFailed(uploaded_photo)
           /\ SubmitReview(AppCity, review_title, star_rating, review_text,
                           PyNoneBytes, uploaded_photo, "none")) =>
              \A r \in reviews' \ Db :
                  r = InsertRow(last'.rowid, AppCity, star_rating,
                                review_title, review_text, PyNoneBytes, PyNone,
                                now)]_vars

(* C16: every stored photo is the output of the handler's decode, thumbnail *)
(* and JPEG save: a JPEG of quality 85 in a mode JPEG can hold, no larger   *)
(* than 800 by 800; never the bytes as uploaded.                            *)
C16_PhotosNormalized ==
    \A r \in reviews :
        r.photo_data # PyNoneBytes =>
            /\ Len(r.photo_data) = 5
            /\ r.photo_data[1] = "JPEG"
            /\ r.photo_data[2] \in {"RGB", "L", "CMYK"}
            /\ r.photo_data[3] \in 1..800
            /\ r.photo_data[4] \in 1..800
            /\ r.photo_data[5] = 85
            /\ r.photo_data \notin UploadedPhotos \cup CameraPhotos

(* a review stored with the big upload scaled down, and one stored without  *)
(* the photo that could not be processed                                    *)
C16_Witness ==
    /\ \E r \in reviews : r.photo_data = <<"JPEG", "RGB", 800, 600, 85>>
    /\ \E r \in reviews : r.photo_data = PyNoneBytes /\ r.photo_filename = UploadName

(* C17: a stored review never changes: from one state to the next each row  *)
(* is the same record or is gone, gone only by a delete_review of its own   *)
(* id; and a row that appears is the one add_review was just given, with    *)
(* the next id and the current time.                                        *)
C17_Immutable ==
    [][/\ \A r \in Db :
             \/ r \in reviews'
             \/ /\ last'.op = "delete_review"
                /\ last'.args.review_id = r.id
                /\ r.id \notin Ids(reviews')
       /\ \A r \in reviews' :
             \/ r \in Db
             \/ /\ Added
                /\ r = [id |-> last'.rowid, city |-> last'.args.city,
                        rating |-> last'.args.rating,
                        title |-> last'.args.title,
                        review_text |-> last'.args.review_text,
                        photo_data |-> last'.args.photo_bytes,
                        photo_filename |-> last'.args.photo_filename,
                        created_at |-> now]
                /\ r.id \notin Ids(Db)]_vars

(* the first review is still stored as created after a second one was added *)
(* and deleted and the city was listed                                      *)
C17_Witness ==
    /\ last.op = "get_reviews_for_city"
    /\ Len(issued) = 2
    /\ \E r \in reviews : reviews = {r} /\ r.id = 1 /\ r.rating = 0
    /\ Len(last.ret) = 1

(* C18: add_review validates nothing: any rating, in 1..5 or not, and any   *)
(* title, text and city, empty or not, is accepted, stored as given and     *)
(* listed with the same values.                                             *)
C18_NoValidation ==
    /\ [](\A city \in FieldCities, rating \in FieldRatings,
             title \in Titles, review_text \in Texts :
             ENABLED add_review(city, rating, title, review_text,
                                PyNoneBytes, PyNone))
    /\ [][Added => \A city \in FieldCities, rating \in FieldRatings,
             title \in Titles, review_text \in Texts :
             add_review(city, rating, title, review_text,
                        PyNoneBytes, PyNone) =>
                /\ last'.ret = PyTrue
                /\ last'.exc = PyNone
                /\ \E r \in reviews' \ Db :
                      /\ r.city = city /\ r.rating = rating
                      /\ r.title = title /\ r.review_text = review_text
                /\ \A l \in ReviewsForCity(Db', city) :
                      \E i \in 1..Len(l) :
                         /\ l[i].id = last'.rowid
                         /\ l[i].rating = rating
                         /\ l[i].title = title
                         /\ l[i].text = review_text]_vars

(* the empty city was listed and holds a review of rating 0 with an empty   *)
(* title and an empty text                                                  *)
C18_Witness ==
    /\ last.op = "get_reviews_for_city"
    /\ last.args.city = ""
    /\ \E i \in 1..Len(last.ret) :
          /\ last.ret[i].rating = 0
          /\ last.ret[i].title = ""
          /\ last.ret[i].text = ""

(* C19: when storage fails in add_review or delete_review the call raises   *)
(* and the store is as before (rows, id counter, every list and summary);   *)
(* the handler shows the error and not the success message.                 *)
C19_FailurePropagates ==
    [][(last'.exc # PyNone /\ last'.op \in {"add_review", "delete_review"}) =>
          /\ Db' = Db
          /\ sqlite_sequence' = sqlite_sequence
          /\ ReviewsForCity(Db', AppCity) = ReviewsForCity(Db, AppCity)
          /\ CityRatingSummary(Db', AppCity) = CityRatingSummary(Db, AppCity)
          /\ last'.op = "add_review" =>
                /\ "Error saving review" \in shown'
                /\ "Review submitted successfully!" \notin shown'
          /\ last'.op = "delete_review" =>
                /\ "Error deleting review" \in shown'
                /\ "Review deleted!" \notin shown']_vars

(* a submission has failed in storage with a review already stored: the     *)
(* error is shown, the review is still the only one                         *)
C19_Witness ==
    /\ last.op = "add_review"
    /\ last.exc # PyNone
    /\ shown = {"Error saving review"}
    /\ Cardinality(reviews) = 1
    /\ Len(issued) = 1

(* C20: no operation returns or raises with the connection it opened still  *)
(* open: between operations no connection to reviews.db is open.            *)
C20_ConnectionsReleased == connections = 0

(* C25: whatever ratings are stored, in 1..5 or not, the average of a       *)
(* city's summary is the mean of the ratings of the reviews its total       *)
(* counts: average * total = the sum of those ratings.                      *)
C25_AverageIsMean ==
    \A c \in SummaryCities :
        LET s == CityRatingSummary(Db, c)
            S == WhereCity(Db, c)
        IN  /\ s.total = Cardinality(S)
            /\ s.average.num * s.total = RatingSum(S) * s.average.den

(* C23: the form calls add_review only with a title and a text that are not *)
(* blank after strip() and a rating among 1..5: every review stored through *)
(* the form has such fields, and a submission the form rejects calls no     *)
(* store function and leaves the rows and the id counter as they were.      *)
C23_FormValidates ==
    /\ [](\A r \in Db :
             /\ r.title \notin {"", " "}
             /\ r.review_text \notin {"", " "}
             /\ r.rating \in 1..5)
    /\ [][/\ last'.op = "add_review" =>
               /\ last'.args.title \notin {"", " "}
               /\ last'.args.review_text \notin {"", " "}
               /\ last'.args.rating \in 1..5
          /\ (shown' \cap {"Please enter a review title",
                           "Please write a review"} # {}) =>
               /\ last'.op = "none"
               /\ Db' = Db
               /\ sqlite_sequence' = sqlite_sequence
               /\ issued' = issued]_vars

(* a submission with a blank title was just rejected, with a review of      *)
(* rating 1 stored through the form before it                               *)
C23_Witness ==
    /\ shown = {"Please enter a review title"}
    /\ last.op = "none"
    /\ \E r \in reviews : r.rating = 1 /\ r.title = "Nice"
    /\ page.total = 1

(* the positions of the reviews of rating f in the sequence l *)
PositionsOf(l, f) == {i \in 1..Len(l) : l[i].rating = f}

(* the k-th smallest member of a set of positions *)
KthOf(P, k) == CHOOSE i \in P : Cardinality({j \in P : j <= i}) = k

(* C24: the filter works on the sequence get_reviews_for_city returned and  *)
(* on nothing else: with filter 0 the reviews displayed are that sequence;  *)
(* with a filter in 1..5 they are its reviews of that rating, all of them,  *)
(* in the order they have in it; a run that only filters leaves the rows    *)
(* and the id counter unchanged.                                            *)
C24_FilterIsSubsequence ==
    /\ [](LET l == page.reviews
              f == page.filter_rating
              d == page.filtered_reviews
          IN  /\ f \in FilterOptions
              /\ f = 0 => d = l
              /\ f # 0 =>
                    /\ Len(d) = Cardinality(PositionsOf(l, f))
                    /\ \A k \in 1..Len(d) : d[k] = l[KthOf(PositionsOf(l, f), k)])
    /\ [][last'.op = "get_reviews_for_city" =>
             /\ page'.reviews = last'.ret
             /\ Db' = Db
             /\ sqlite_sequence' = sqlite_sequence]_vars

(* two reviews are listed, of ratings 5 and 1 in that order, and the filter *)
(* 1 displays the second alone                                              *)
C24_Witness ==
    /\ last.op = "get_reviews_for_city"
    /\ page.filter_rating = 1
    /\ Len(page.reviews) = 2
    /\ page.reviews[1].rating = 5
    /\ Len(page.filtered_reviews) = 1
    /\ page.filtered_reviews[1] = page.reviews[2]

(* C26: on every page displayed, the submit run's included, the total of    *)
(* the rating summary is the number of reviews listed when the filter is 0. *)
C26_TotalMatchesList ==
    page.filter_rating = 0 => page.total = Len(page.filtered_reviews)

(* this step is the return of some user's call of `op` *)
Returned(op) ==
    \E u \in Users :
        calls[u].op = op /\ calls[u].pc # "idle" /\ calls'[u].pc = "idle"

(* C21: with several users' calls interleaved, each add_review that        *)
(* returns has inserted exactly one whole row, with an id no other review   *)
(* has or had, and removed nothing; each delete_review removes the row of   *)
(* its id and no other; no other step changes the rows; and a list or a     *)
(* summary is computed over whole committed rows: every review is in it     *)
(* with all its fields or not at all.                                       *)
C21_AtomicOperations ==
    /\ [](/\ \A r1, r2 \in Db : r1.id = r2.id => r1 = r2
          /\ NoDuplicates(issued)
          /\ Ids(Db) \subseteq Range(issued))
    /\ [][/\ (last'.op = "add_review" /\ last'.exc = PyNone /\ Added) =>
               /\ last'.rowid \notin Ids(Db) \cup Range(issued)
               /\ reviews' = Db \cup
                     {[id |-> last'.rowid, city |-> last'.args.city,
                       rating |-> last'.args.rating,
                       title |-> last'.args.title,
                       review_text |-> last'.args.review_text,
                       photo_data |-> last'.args.photo_bytes,
                       photo_filename |-> last'.args.photo_filename,
                       created_at |-> now]}
          /\ ~Added =>
               \/ Db' = Db
               \/ /\ last'.op = "delete_review" /\ last'.exc = PyNone
                  /\ Db' = {r \in Db : r.id # last'.args.review_id}
          /\ Returned("get_reviews_for_city") =>
               /\ Db' = Db
               /\ {last'.ret[i] : i \in 1..Len(last'.ret)}
                     = {ReviewDict(r) : r \in WhereCity(Db, AppCity)}
               /\ Len(last'.ret) = Cardinality(WhereCity(Db, AppCity))
          /\ Returned("get_city_rating_summary") =>
               /\ Db' = Db
               /\ last'.ret.total = Cardinality(WhereCity(Db, AppCity))]_vars

(* one user's INSERT of review 2 holds the write lock, not yet committed,   *)
(* while the other user's list is in progress; review 1 is stored           *)
C21_Witness ==
    /\ lock = "u1"
    /\ calls["u1"].op = "add_review" /\ calls["u1"].pc = "executed"
    /\ calls["u1"].rowid = 2
    /\ calls["u2"].op = "get_reviews_for_city"
    /\ calls["u2"].pc = "connected"
    /\ Ids(reviews) = {1}

(* C22: a photo larger than 800 by 800 is stored with both dimensions at    *)
(* most 800 and the aspect ratio of the source kept within rounding: one    *)
(* dimension is 800 and the other is less than 1 away from its exact        *)
(* value; a photo within 800 by 800 is stored with the dimensions it has.   *)
C22_ResizeBound ==
    [][Added => \A w \in PhotoSizes, h \in PhotoSizes :
          SubmitReview(AppCity, "Nice", 4, "Good", PyNoneBytes,
                       SizedJpeg(w, h), "none") =>
             LET sw == last'.args.photo_bytes[3]
                 sh == last'.args.photo_bytes[4]
             IN  /\ \E r \in reviews' : r.id = last'.rowid
                        /\ r.photo_data = last'.args.photo_bytes
                 /\ sw \in 1..800 /\ sh \in 1..800
                 /\ (w <= 800 /\ h <= 800) => (sw = w /\ sh = h)
                 /\ (w > 800 \/ h > 800) =>
                       \/ sh = 800 /\ Abs(sw * h - 800 * w) < h
                       \/ sw = 800 /\ Abs(sh * w - 800 * h) < w]_vars

(* a photo of 2401 by 640 is stored as 800 by 213, one of 640 by 1 as it is *)
C22_Witness ==
    /\ last.op = "add_review"
    /\ \E r \in reviews : r.photo_data = <<"JPEG", "RGB", 800, 213, 85>>
    /\ \E r \in reviews : r.photo_data = <<"JPEG", "RGB", 640, 1, 85>>

====
